---- MODULE Spec2Model ----
(***************************************************************************)
(* BufIter (src/src/lib.rs): a buffered iterator.  A BufIter owns a source *)
(* iterator `iter` and a VecDeque `buf` of items already pulled from it    *)
(* (or pushed back by the caller).  The VecDeque is modelled by its        *)
(* logical contents, front first: buf[1] is the element VecDeque index 0   *)
(* names.  The source is modelled by the outputs Iterator::next has still  *)
(* to give: an item, or Stop for one None; once the sequence is used up    *)
(* next gives None for ever.  A negative last entry -x is the rest of an   *)
(* infinite source: item x for ever.                                       *)
(***************************************************************************)
EXTENDS Integers, Sequences, FiniteSets, TLC

\* ---------------------------------------------------------------- bounds
\* MaxSrc: the longest source wrapped.  MaxLen: pushes stop when the buffer
\* and the source together hold this many.  MaxIdx: the largest small index
\* peeked.  MaxHi: the largest small end bound of a range.  LogLen: the
\* longest run of calls recorded.  UsizeBits: the width of usize.  MaxPush:
\* the most pushes in one iteration run.
MaxSrc == 3
MaxLen == 4
MaxIdx == 2
MaxHi == 3
LogLen == 4
UsizeBits == 5
MaxPush == 1

\* Item values (Iter::Item); Stop is the source's None and is no item.
Items == {1, 2}
Stop == 0

\* usize::MAX and isize::MAX of the modelled word.
UsizeMax == 2^UsizeBits - 1
IsizeMax == 2^(UsizeBits - 1) - 1

VARIABLES
  iter,             \* BufIter.iter: what the source has still to give
  buf,              \* BufIter.buf, front first
  overflow_checks,  \* the build: TRUE when integer overflow panics (debug)
  log,              \* the calls recorded, oldest first (see CanCall)
  start             \* the fields (iter, buf) before the first call of log

vars == <<iter, buf, overflow_checks, log, start>>

\* -------------------------------------------------------------- results
RNone == [kind |-> "None", val |-> 0, view |-> <<>>]
RSome(v) == [kind |-> "Some", val |-> v, view |-> <<>>]
RSlice(sq) == [kind |-> "Slice", val |-> 0, view |-> sq]
RUnit == [kind |-> "Unit", val |-> 0, view |-> <<>>]
RLen(k) == [kind |-> "Len", val |-> k, view |-> <<>>]
\* The call never returns.
RNever == [kind |-> "Never", val |-> 0, view |-> <<>>]
\* A panic: 1 = attempt to add with overflow, 2 = capacity overflow,
\* 3 = assertion failed (ExactSizeIterator::len).
RPanic(code) == [kind |-> "Panic", val |-> code, view |-> <<>>]

\* Range bounds (std::ops::Bound<usize>).
Unbounded == [k |-> "Unb", v |-> 0]
Included(n) == [k |-> "Inc", v |-> n]
Excluded(n) == [k |-> "Exc", v |-> n]
\* The end of a RangeInclusive a..=n that was iterated to its end: end_bound
\* reports Excluded(n), while get slices n+1..n+1.
Exhausted(n) == [k |-> "Exh", v |-> n]

saturating_sub(a, b) == IF a > b THEN a - b ELSE 0

\* usize addition in a release build: the sum modulo 2^UsizeBits.
wrapping_add(a, b) == (a + b) % (UsizeMax + 1)

\* ---------------------------------------------------------------- source
\* Iterator::next on the source.
SrcNext(it) ==
  IF it = <<>> THEN [item |-> Stop, iter |-> <<>>]
  ELSE IF Head(it) < 0 THEN [item |-> -Head(it), iter |-> it]
  ELSE [item |-> Head(it), iter |-> Tail(it)]

\* The source never gives None: it ends in an infinite rest.
Infinite(it) == it # <<>> /\ it[Len(it)] < 0 /\ \A i \in DOMAIN it : it[i] # Stop

\* The items the source has still to give, its None outputs left out.
RECURSIVE ItemsOf(_)
ItemsOf(it) ==
  IF it = <<>> THEN <<>>
  ELSE IF Head(it) = Stop THEN ItemsOf(Tail(it))
  ELSE <<Head(it)>> \o ItemsOf(Tail(it))

\* -------------------------------------------------------------- VecDeque
\* VecDeque::reserve(additional) on a deque of length len: it panics with
\* "capacity overflow" when len + additional elements (of one byte or more)
\* exceed isize::MAX bytes.
ReserveOk(len, additional) == len + additional <= IsizeMax

\* VecDeque::get(n) / get_mut(n).
DequeGet(b, n) == IF n < Len(b) THEN RSome(b[n + 1]) ELSE RNone

\* <[T]>::get(range) / get_mut(range) on the contiguous deque, for the range
\* types of std (a..b, a..=b, a.., ..b, ..=b, .., (Bound, Bound)): None when
\* a bound + 1 overflows, when start > end or when end > len.  A
\* RangeInclusive a..=n slices a..n+1, and n+1..n+1 once it is exhausted
\* (RangeInclusive::into_slice_range).
SliceStart(lo) ==
  IF lo.k = "Unb" THEN 0 ELSE IF lo.k = "Inc" THEN lo.v ELSE lo.v + 1
SliceEnd(b, hi) ==
  IF hi.k = "Unb" THEN Len(b) ELSE IF hi.k = "Exc" THEN hi.v ELSE hi.v + 1
SliceGet(b, lo, hi) ==
  LET start_ == IF hi.k = "Exh" THEN hi.v + 1 ELSE SliceStart(lo) IN
  IF \/ start_ > UsizeMax
     \/ SliceEnd(b, hi) > UsizeMax
     \/ start_ > SliceEnd(b, hi)
     \/ SliceEnd(b, hi) > Len(b)
  THEN RNone
  ELSE RSlice(SubSeq(b, start_ + 1, SliceEnd(b, hi)))

\* ------------------------------------------------ private implementation
\* prepare_n's loop: while buf.len() < n, push_back the next item; break at
\* the source's None.
\* (mutant: the loop runs while buf.len() <= n and reads one item ahead)
RECURSIVE prepare_n_loop_ahead(_, _, _)
prepare_n_loop_ahead(it, b, n) ==
  IF Len(b) <= n
  THEN LET nx == SrcNext(it) IN
       IF nx.item = Stop THEN [iter |-> nx.iter, buf |-> b, asked |-> 1]
       ELSE LET f == prepare_n_loop_ahead(nx.iter, Append(b, nx.item), n) IN
            [f EXCEPT !.asked = @ + 1]
  ELSE [iter |-> it, buf |-> b, asked |-> 0]

\* (mutant: the loop goes on to the next item after a None)
RECURSIVE prepare_n_loop_past_none(_, _, _)
prepare_n_loop_past_none(it, b, n) ==
  IF Len(b) < n
  THEN LET nx == SrcNext(it) IN
       IF nx.item = Stop /\ nx.iter = <<>>
       THEN [iter |-> nx.iter, buf |-> b, asked |-> 1]
       ELSE LET f == prepare_n_loop_past_none(
                       nx.iter, IF nx.item = Stop THEN b ELSE Append(b, nx.item), n) IN
            [f EXCEPT !.asked = @ + 1]
  ELSE [iter |-> it, buf |-> b, asked |-> 0]

\* (mutant: the loop makes n pulls whatever buf.len() is)
RECURSIVE prepare_n_loop_unbuffered(_, _, _)
prepare_n_loop_unbuffered(it, b, n) ==
  IF n = 0 THEN [iter |-> it, buf |-> b, asked |-> 0]
  ELSE LET nx == SrcNext(it) IN
       IF nx.item = Stop THEN [iter |-> nx.iter, buf |-> b, asked |-> 1]
       ELSE LET f == prepare_n_loop_unbuffered(nx.iter, Append(b, nx.item), n - 1) IN
            [f EXCEPT !.asked = @ + 1]

\* asked counts the calls of self.iter.next() made.
RECURSIVE prepare_n_loop(_, _, _)
prepare_n_loop(it, b, n) ==
  IF Len(b) < n
  THEN LET nx == SrcNext(it) IN
       IF nx.item = Stop THEN [iter |-> nx.iter, buf |-> b, asked |-> 1]
       ELSE LET f == prepare_n_loop(nx.iter, Append(b, nx.item), n) IN
            [f EXCEPT !.asked = @ + 1]
  ELSE [iter |-> it, buf |-> b, asked |-> 0]

\* prepare_n(n): Ok (err = 0) or Err(deficit); panicked when reserve panics.
prepare_n(it, b, n) ==
  IF ~ReserveOk(Len(b), saturating_sub(n, Len(b)))
  THEN [iter |-> it, buf |-> b, err |-> 0, panicked |-> TRUE, asked |-> 0]
  ELSE LET f == prepare_n_loop(it, b, n) IN
       [iter |-> f.iter, buf |-> f.buf,
        err |-> saturating_sub(n, Len(f.buf)), panicked |-> FALSE,
        asked |-> f.asked]

\* prepare_all: push_back every item up to the source's None.  Over a source
\* that never gives None the loop never ends (never = TRUE): it goes on
\* until the buffer can no longer be allocated.
RECURSIVE prepare_all(_, _)
prepare_all(it, b) ==
  LET nx == SrcNext(it) IN
  IF nx.item = Stop
  THEN [iter |-> nx.iter, buf |-> b, never |-> FALSE, asked |-> 1]
  ELSE IF Infinite(it) THEN [iter |-> it, buf |-> b, never |-> TRUE, asked |-> 0]
  ELSE LET f == prepare_all(nx.iter, Append(b, nx.item)) IN
       [f EXCEPT !.asked = @ + 1]

\* (mutant: the items taken are put at the front of the buffer)
RECURSIVE take_loop_front(_, _, _)
take_loop_front(it, b, extra) ==
  IF extra = 0 THEN [iter |-> it, buf |-> b, asked |-> 0]
  ELSE LET nx == SrcNext(it) IN
       IF nx.item = Stop THEN [iter |-> nx.iter, buf |-> b, asked |-> 1]
       ELSE LET f == take_loop_front(nx.iter, <<nx.item>> \o b, extra - 1) IN
            [f EXCEPT !.asked = @ + 1]

\* for item in (&mut self.iter).take(extra) { buf.push_back(item) }: Take
\* asks the source while its count is not 0 and ends at the source's None.
RECURSIVE take_loop(_, _, _)
take_loop(it, b, extra) ==
  IF extra = 0 THEN [iter |-> it, buf |-> b, asked |-> 0]
  ELSE LET nx == SrcNext(it) IN
       IF nx.item = Stop THEN [iter |-> nx.iter, buf |-> b, asked |-> 1]
       ELSE LET f == take_loop(nx.iter, Append(b, nx.item), extra - 1) IN
            [f EXCEPT !.asked = @ + 1]

\* (mutant: the inclusive end is taken as if it were exclusive)
prepare_extra_short(b, hi) == saturating_sub(hi.v, Len(b))

\* (mutant: extra is the end bound itself, whatever is buffered)
prepare_extra_whole(b, hi) ==
  IF hi.k = "Inc" THEN wrapping_add(hi.v, 1) ELSE hi.v

\* prepare's `extra`: how many more elements the range's end bound asks for.
\* ni + 1 wraps in a build without overflow checks (with them prepare
\* panics before it gets here).  An exhausted RangeInclusive reports the
\* end bound Excluded(n).
prepare_extra(b, hi) ==
  IF hi.k = "Inc" THEN saturating_sub(wrapping_add(hi.v, 1), Len(b))
  ELSE saturating_sub(hi.v, Len(b))

\* prepare(range): panic = 0 when it returns, else the panic's code; never
\* when it does not return.
prepare(it, b, hi) ==
  IF hi.k = "Unb"
  THEN LET f == prepare_all(it, b) IN
       [iter |-> f.iter, buf |-> f.buf, panic |-> 0, never |-> f.never,
        asked |-> f.asked]
  ELSE IF hi.k = "Inc" /\ hi.v = UsizeMax /\ overflow_checks
  THEN [iter |-> it, buf |-> b, panic |-> 1, never |-> FALSE, asked |-> 0]
  ELSE IF ~ReserveOk(Len(b), prepare_extra(b, hi))
  THEN [iter |-> it, buf |-> b, panic |-> 2, never |-> FALSE, asked |-> 0]
  ELSE LET f == take_loop(it, b, prepare_extra(b, hi)) IN
       [iter |-> f.iter, buf |-> f.buf, panic |-> 0, never |-> FALSE,
        asked |-> f.asked]

\* ------------------------------------------------- public implementation
\* Each operation takes the fields (iter, buf) and gives the fields after
\* the call with what the call returned and how often it called
\* self.iter.next() (asked).
\* (mutant: new takes the first item of the source into the buffer)
new_eager(src) ==
  IF src = <<>> \/ Head(src) = Stop THEN [iter |-> src, buf |-> <<>>]
  ELSE [iter |-> Tail(src), buf |-> <<Head(src)>>]

new(src) == [iter |-> src, buf |-> <<>>]

\* (mutant: push_back for push_front)
push_at_back(it, b, item) ==
  [iter |-> it, buf |-> Append(b, item), ret |-> RUnit, asked |-> 0]

push(it, b, item) ==
  [iter |-> it, buf |-> <<item>> \o b, ret |-> RUnit, asked |-> 0]

\* (mutant: pop_back for pop_front)
pop_back(it, b) ==
  IF b = <<>>
  THEN LET nx == SrcNext(it) IN
       [iter |-> nx.iter, buf |-> b,
        ret |-> IF nx.item = Stop THEN RNone ELSE RSome(nx.item), asked |-> 1]
  ELSE [iter |-> it, buf |-> SubSeq(b, 1, Len(b) - 1), ret |-> RSome(b[Len(b)]),
        asked |-> 0]

\* (mutant: the source is asked first, the buffer only when it gives None)
pop_source_first(it, b) ==
  LET nx == SrcNext(it) IN
  IF nx.item # Stop
  THEN [iter |-> nx.iter, buf |-> b, ret |-> RSome(nx.item), asked |-> 1]
  ELSE IF b = <<>> THEN [iter |-> nx.iter, buf |-> b, ret |-> RNone, asked |-> 1]
  ELSE [iter |-> it, buf |-> Tail(b), ret |-> RSome(Head(b)), asked |-> 1]

\* (mutant: self.iter.next() is called before the buffer is looked at)
pop_eager_next(it, b) ==
  LET nx == SrcNext(it) IN
  IF b = <<>>
  THEN [iter |-> nx.iter, buf |-> b,
        ret |-> IF nx.item = Stop THEN RNone ELSE RSome(nx.item), asked |-> 1]
  ELSE [iter |-> nx.iter, buf |-> Tail(b), ret |-> RSome(Head(b)), asked |-> 1]

pop(it, b) ==
  IF b = <<>>
  THEN LET nx == SrcNext(it) IN
       [iter |-> nx.iter, buf |-> b,
        ret |-> IF nx.item = Stop THEN RNone ELSE RSome(nx.item), asked |-> 1]
  ELSE [iter |-> it, buf |-> Tail(b), ret |-> RSome(Head(b)), asked |-> 0]

peek(it, b, n) ==
  IF n = UsizeMax /\ overflow_checks
  THEN [iter |-> it, buf |-> b, ret |-> RPanic(1), asked |-> 0]
  ELSE LET p == prepare_n(it, b, wrapping_add(n, 1)) IN
       IF p.panicked THEN [iter |-> it, buf |-> b, ret |-> RPanic(2), asked |-> 0]
       ELSE IF p.err > 0
       THEN [iter |-> p.iter, buf |-> p.buf, ret |-> RNone, asked |-> p.asked]
       ELSE [iter |-> p.iter, buf |-> p.buf, ret |-> DequeGet(p.buf, n),
             asked |-> p.asked]

\* (mutant: the reference is to the front element, get_mut(0))
peek_mut_front(it, b, n, w) ==
  LET r == peek(it, b, n) IN
  IF r.ret.kind = "Some" /\ w # 0
  THEN [r EXCEPT !.buf = [r.buf EXCEPT ![1] = w]]
  ELSE r

\* peek_mut(n), and what the caller does with the reference: w = 0 reads
\* it, another w is stored through it.
peek_mut(it, b, n, w) ==
  LET r == peek(it, b, n) IN
  IF r.ret.kind = "Some" /\ w # 0
  THEN [r EXCEPT !.buf = [r.buf EXCEPT ![n + 1] = w]]
  ELSE r

\* (mutant: the call to prepare is left out)
peek_slice_unprepared(it, b, lo, hi) ==
  [iter |-> it, buf |-> b, ret |-> SliceGet(b, lo, hi), asked |-> 0]

peek_slice(it, b, lo, hi) ==
  LET p == prepare(it, b, hi) IN
  IF p.never THEN [iter |-> it, buf |-> b, ret |-> RNever, asked |-> 0]
  ELSE IF p.panic # 0
  THEN [iter |-> it, buf |-> b, ret |-> RPanic(p.panic), asked |-> 0]
  ELSE [iter |-> p.iter, buf |-> p.buf, ret |-> SliceGet(p.buf, lo, hi),
        asked |-> p.asked]

\* peek_slice_mut(range), and what the caller does with the view: w = 0
\* reads it, another w is stored at position pos of the view.
peek_slice_mut(it, b, lo, hi, pos, w) ==
  LET r == peek_slice(it, b, lo, hi) IN
  IF r.ret.kind = "Slice" /\ w # 0 /\ pos < Len(r.ret.view)
  THEN [r EXCEPT !.buf = [r.buf EXCEPT ![SliceStart(lo) + pos + 1] = w]]
  ELSE r

\* Iterator::next of BufIter.
next(it, b) == pop(it, b)

\* Iterator::size_hint is not overridden: the trait's default, (0, None).
size_hint(it, b) == [lower |-> 0, upper |-> RNone]

\* ExactSizeIterator::len is not overridden: the trait's default, which
\* asserts that size_hint's upper bound is Some(lower).
len(it, b) ==
  LET h == size_hint(it, b) IN
  [iter |-> it, buf |-> b,
   ret |-> IF h.upper = RSome(h.lower) THEN RLen(h.lower) ELSE RPanic(3),
   asked |-> 0]

\* ------------------------------------------------------------ the record
\* How many items a call took from the source: of a finite source, those it
\* has no longer to give; of an infinite one, which answers every call of
\* next with an item, as many as the calls of next made.
Pulled(op, r) ==
  IF ~Infinite(iter) THEN Len(ItemsOf(iter)) - Len(ItemsOf(r.iter))
  ELSE r.asked

\* One call: the operation, its arguments, what it returned, how many items
\* it took from the source, and how often it called the source's next.
Event(op, n, lo, hi, pos, w, r) ==
  [op |-> op, n |-> n, lo |-> lo, hi |-> hi, pos |-> pos, w |-> w,
   ret |-> r.ret,
   pulled |-> Pulled(op, r),
   asked |-> r.asked]

\* The record is a window on the run: it starts with any call, goes on with
\* the pops that follow (or, after pushes only, with further pushes and then
\* pops), holds at most LogLen calls, and is dropped by Forget, after which
\* every call is possible again.  Forget changes neither iter nor buf, so the
\* states of the BufIter reached are those of every sequence of calls.  A
\* peek(n) may also follow a first peek(n).  After a call that never returns
\* there is no further call.
Last == log[Len(log)]

Hung == log # <<>> /\ Last.ret.kind = "Never"

CanCall(op) ==
  /\ Len(log) < LogLen
  /\ ~Hung
  /\ \/ log = <<>>
     \/ op = "pop"
     \/ op = "push" /\ \A i \in DOMAIN log : log[i].op = "push"

Repeats(op, n) ==
  /\ Len(log) = 1 /\ Len(log) < LogLen
  /\ log[1].op = op /\ log[1].n = n

Did(op, n, range, pos, w, r) ==
  /\ iter' = r.iter
  /\ buf' = r.buf
  /\ log' = Append(log, Event(op, n, range.lo, range.hi, pos, w, r))
  /\ UNCHANGED <<overflow_checks, start>>

\* ---------------------------------------------------------------- inputs
Sources == UNION {[1..k -> Items] : k \in 0..MaxSrc}
Indices == (0..MaxIdx) \cup {UsizeMax - 1, UsizeMax}
UpperBounds ==
  {Unbounded} \cup {Excluded(e) : e \in (0..MaxHi) \cup {UsizeMax}}
              \cup {Included(i) : i \in (0..MaxIdx) \cup {UsizeMax}}
\* a..b, a..=b and a.. for the small a; the full range ..; the pair
\* (Excluded(0), Unbounded); the one-element ranges at the largest
\* indices, n..n+1 and n..=n; and the RangeInclusive ..=e iterated to its
\* end, whose start has reached e.
Ranges ==
  {[lo |-> Included(a), hi |-> h] : a \in 0..MaxIdx, h \in UpperBounds}
    \cup {[lo |-> Unbounded, hi |-> Unbounded], [lo |-> Excluded(0), hi |-> Unbounded]}
    \cup {[lo |-> Included(UsizeMax), hi |-> Included(UsizeMax)],
          [lo |-> Included(UsizeMax - 1), hi |-> Included(UsizeMax - 1)],
          [lo |-> Included(UsizeMax - 1), hi |-> Excluded(UsizeMax)]}
    \cup {[lo |-> Included(e), hi |-> Exhausted(e)] : e \in 0..MaxIdx}
NoRange == [lo |-> Unbounded, hi |-> Unbounded]

\* --------------------------------------------------------------- actions
\* new(src) over a source of SrcSet; start records the source handed in.
InitOver(SrcSet) ==
  /\ \E src \in SrcSet :
       /\ iter = new(src).iter /\ buf = new(src).buf
       /\ start = [iter |-> src, buf |-> <<>>]
  /\ overflow_checks \in BOOLEAN
  /\ log = <<>>

Init == InitOver(Sources)

Push ==
  /\ CanCall("push")
  /\ Len(buf) + Len(iter) < MaxLen
  /\ \E item \in Items :
       Did("push", item, NoRange, 0, 0, push(iter, buf, item))

Pop ==
  /\ CanCall("pop")
  /\ Did("pop", 0, NoRange, 0, 0, next(iter, buf))

Peek ==
  \E n \in Indices :
    /\ CanCall("peek") \/ Repeats("peek", n)
    /\ Did("peek", n, NoRange, 0, 0, peek(iter, buf, n))

PeekMut ==
  /\ CanCall("peek_mut")
  /\ \E n \in Indices, w \in Items \cup {0} :
       Did("peek_mut", n, NoRange, n, w, peek_mut(iter, buf, n, w))

PeekSlice ==
  /\ CanCall("peek_slice")
  /\ \E range \in Ranges :
       Did("peek_slice", 0, range, 0, 0, peek_slice(iter, buf, range.lo, range.hi))

\* The caller reads the view (w = 0) or stores w at a position of it.
PeekSliceMut ==
  /\ CanCall("peek_slice_mut")
  /\ \E range \in Ranges :
       LET r == peek_slice(iter, buf, range.lo, range.hi) IN
       \E pos \in 0..MaxIdx, w \in Items \cup {0} :
         /\ w = 0 => pos = 0
         /\ w # 0 => r.ret.kind = "Slice" /\ pos < Len(r.ret.view)
         /\ Did("peek_slice_mut", 0, range, pos, w,
                peek_slice_mut(iter, buf, range.lo, range.hi, pos, w))

ExactLen ==
  /\ CanCall("len")
  /\ Did("len", 0, NoRange, 0, 0, len(iter, buf))

\* The record is dropped; the BufIter is as it was.
Forget ==
  /\ log # <<>>
  /\ ~Hung
  /\ log' = <<>>
  /\ start' = [iter |-> iter, buf |-> buf]
  /\ UNCHANGED <<iter, buf, overflow_checks>>

Next ==
  \/ Push
  \/ Pop
  \/ Peek
  \/ PeekMut
  \/ PeekSlice
  \/ PeekSliceMut
  \/ ExactLen
  \/ Forget

Spec == Init /\ [][Next]_vars

\* ------------------------------------------------- the prefix run (C5)
\* On a fresh BufIter: peek(0), peek(1), ..., peek(k-1) for some k up to the
\* source's length, then up to k pops.  log holds the whole run.
PrefixPeek ==
  /\ \A i \in DOMAIN log : log[i].op = "peek"
  /\ Len(log) < Len(ItemsOf(start.iter))
  /\ Did("peek", Len(log), NoRange, 0, 0, peek(iter, buf, Len(log)))

PrefixPop ==
  /\ Cardinality({i \in DOMAIN log : log[i].op = "pop"})
       < Cardinality({i \in DOMAIN log : log[i].op = "peek"})
  /\ Did("pop", 0, NoRange, 0, 0, next(iter, buf))

PrefixNext ==
  \/ PrefixPeek
  \/ PrefixPop

PrefixSpec == Init /\ [][PrefixNext]_vars

\* ---------------------------------------------------------------- claims
\* The logical sequence: the buffer, front first, then the items the source
\* has still to give.
Logical(it, b) == b \o ItemsOf(it)

\* What the claims say a recorded run does to a logical sequence: a push
\* puts its item in front, a pop that returned an item removes the first
\* element (ok: that element is the item returned; a pop returns None only
\* when nothing is left), any other call leaves it alone.
RECURSIVE Replay(_, _)
Replay(sq, lg) ==
  IF lg = <<>> THEN [seq |-> sq, ok |-> TRUE]
  ELSE LET e == Head(lg) IN
       IF e.op = "push" THEN Replay(<<e.n>> \o sq, Tail(lg))
       ELSE IF e.op = "pop"
       THEN IF sq = <<>>
            THEN [Replay(sq, Tail(lg)) EXCEPT !.ok = @ /\ e.ret = RNone]
            ELSE [Replay(Tail(sq), Tail(lg)) EXCEPT !.ok = @ /\ e.ret = RSome(Head(sq))]
       ELSE Replay(sq, Tail(lg))

\* The elements available: buffered plus still to come from the source.
Available(it, b) == Len(Logical(it, b))

NoWrites(lg) == \A i \in DOMAIN lg : lg[i].w = 0

Max(a, b) == IF a > b THEN a ELSE b

\* C1: after any recorded run of push, pop, peek, peek_mut, peek_slice and
\* peek_slice_mut calls in which nothing is written through a reference, the
\* buffer followed by the rest of the source is the logical sequence the run
\* started from with the popped items removed from the front and the pushed
\* items put in front; every pop returned the element then in front.  (The
\* run starts in any reachable state, the first being new(source), so the
\* same holds of the whole history.)
C1_LogicalSequence ==
  NoWrites(log) =>
    /\ Replay(Logical(start.iter, start.buf), log).ok
    /\ Logical(iter, buf) = Replay(Logical(start.iter, start.buf), log).seq

\* C1 witness: a peek_slice_mut that pulled from the source into a buffer
\* holding a pushed item, then a pop, with items left in buffer and source.
C1_Witness ==
  /\ Len(log) = 2
  /\ log[1].op = "peek_slice_mut" /\ log[1].w = 0 /\ log[1].pulled >= 1
  /\ log[2].op = "pop" /\ log[2].ret.kind = "Some"
  /\ start.buf # <<>> /\ buf # <<>> /\ iter # <<>>

\* C2 (as claimed): a peek_slice or peek_slice_mut whose upper bound exceeds
\* the elements available and whose lower bound does not returns the view of
\* the available elements from the lower bound on.
C2_TruncatedView ==
  (/\ Len(log) = 1
   /\ Last.op \in {"peek_slice", "peek_slice_mut"}
   /\ Last.hi.k \in {"Exc", "Inc"}
   /\ SliceEnd(start.buf, Last.hi) > Available(start.iter, start.buf)
   /\ SliceStart(Last.lo) <= Available(start.iter, start.buf))
  => /\ Last.ret.kind = "Slice"
     /\ Len(Last.ret.view) = Available(start.iter, start.buf) - SliceStart(Last.lo)

\* C3 (as claimed): len() reports the buffered elements plus the source's
\* remaining count.
C3_ExactLen ==
  (Len(log) = 1 /\ Last.op = "len")
  => Last.ret = RLen(Len(start.buf) + Len(ItemsOf(start.iter)))

\* C4: peek(n) or peek_mut(n) on a buffer of b elements takes max(0, n+1-b)
\* items from the source when the source has that many, appends exactly
\* what it took to the buffer, and leaves the buffer no longer than
\* max(b, n+1): nothing beyond index n is pulled.
C4_MinimalPull ==
  (Len(log) = 1 /\ Last.op \in {"peek", "peek_mut"})
  => /\ Len(ItemsOf(start.iter)) >= saturating_sub(Last.n + 1, Len(start.buf))
          => Last.pulled = saturating_sub(Last.n + 1, Len(start.buf))
     /\ Len(buf) = Len(start.buf) + Last.pulled
     /\ Len(buf) <= Max(Len(start.buf), Last.n + 1)

\* C4 witness: peek(2) on a fresh buffer pulled exactly 3 items.
C4_Witness ==
  /\ Len(log) = 1 /\ Last.op = "peek" /\ Last.n = 2
  /\ start.buf = <<>> /\ Last.pulled = 3 /\ Last.ret.kind = "Some"

Peeks(lg) == Cardinality({i \in DOMAIN lg : lg[i].op = "peek"})
Pops(lg) == Cardinality({i \in DOMAIN lg : lg[i].op = "pop"})

\* C5: in the prefix run over a source S, the i-th peek, peek(i-1), returned
\* S[i], the i-th pop returned S[i], and no more items were taken from the
\* source than peeks were made.
C5_PrefixRun ==
  /\ \A i \in 1..Peeks(log) : log[i].ret = RSome(ItemsOf(start.iter)[i])
  /\ \A i \in 1..Pops(log) : log[Peeks(log) + i].ret = RSome(ItemsOf(start.iter)[i])
  /\ Len(ItemsOf(start.iter)) - Len(ItemsOf(iter)) <= Peeks(log)

\* C5 witness: k = 2 on a source of 3 items: two peeks and two pops done, the
\* third item still in the source.
C5_Witness ==
  /\ Len(start.iter) = 3 /\ Peeks(log) = 2 /\ Pops(log) = 2
  /\ Len(iter) = 1 /\ buf = <<>>
  /\ start.iter[1] # start.iter[2]

\* C6: push(x) followed at once by pop() returns x, takes nothing from the
\* source, and leaves buffer and source as they were before the push.
C6_PushPop ==
  (Len(log) = 2 /\ log[1].op = "push" /\ log[2].op = "pop")
  => /\ log[2].ret = RSome(log[1].n)
     /\ log[1].pulled = 0 /\ log[2].pulled = 0
     /\ buf = start.buf /\ iter = start.iter

\* C6 witness: push(x), pop() on a buffer whose front was not x, over a
\* source with items left.
C6_Witness ==
  /\ Len(log) = 2 /\ log[1].op = "push" /\ log[2].op = "pop"
  /\ start.buf # <<>> /\ start.iter # <<>>
  /\ Head(start.buf) # log[1].n
  /\ log[2].ret = RSome(log[1].n)

\* C7: after push(a); push(b) the next pop returns b and the one after it
\* a, nothing is taken from the source, and buffer and source are then as
\* before the pushes, so that the elements held before come next.
C7_PushLifo ==
  (/\ Len(log) = 4
   /\ log[1].op = "push" /\ log[2].op = "push"
   /\ log[3].op = "pop" /\ log[4].op = "pop")
  => /\ log[3].ret = RSome(log[2].n)
     /\ log[4].ret = RSome(log[1].n)
     /\ \A i \in 1..4 : log[i].pulled = 0
     /\ buf = start.buf /\ iter = start.iter

\* C7 witness: push(a); push(b); pop(); pop() with a # b on a non-empty
\* buffer.
C7_Witness ==
  /\ Len(log) = 4
  /\ log[1].op = "push" /\ log[2].op = "push"
  /\ log[3].op = "pop" /\ log[4].op = "pop"
  /\ log[1].n # log[2].n
  /\ start.buf # <<>>
  /\ log[4].ret = RSome(log[1].n)

\* A call that stored a value through the reference it got, and the logical
\* position it stored at.
IsWrite(e) ==
  /\ e.op \in {"peek_mut", "peek_slice_mut"}
  /\ e.w # 0
  /\ e.ret.kind \in {"Some", "Slice"}
WritePos(e) == IF e.op = "peek_mut" THEN e.n ELSE SliceStart(e.lo) + e.pos

\* The j-th pop from the logical sequence sq.
PopOf(sq, j) == IF j <= Len(sq) THEN RSome(sq[j]) ELSE RNone

\* C8: a value w stored through peek_mut(n), or at position pos of the view
\* of peek_slice_mut, replaces the element at that logical position q and
\* no other: a peek(q) right after returns w, and the pops that follow
\* return the logical sequence so changed, the (q+1)-th of them w.
C8_MutationVisible ==
  (Len(log) >= 1 /\ IsWrite(log[1]))
  => /\ WritePos(log[1]) < Available(start.iter, start.buf)
     /\ Len(log) = 1 =>
          /\ peek(iter, buf, WritePos(log[1])).ret = RSome(log[1].w)
          /\ Logical(iter, buf) =
               [Logical(start.iter, start.buf) EXCEPT ![WritePos(log[1]) + 1] = log[1].w]
     /\ \A j \in 2..Len(log) :
          log[j].ret =
            PopOf([Logical(start.iter, start.buf) EXCEPT ![WritePos(log[1]) + 1] = log[1].w],
                  j - 1)

\* C8 witness: *peek_mut(2) = w over another value, then three pops, the
\* third returning w.
C8_Witness ==
  /\ Len(log) = 4
  /\ log[1].op = "peek_mut" /\ log[1].n = 2 /\ log[1].w # 0
  /\ log[1].ret.kind = "Some" /\ log[1].ret.val # log[1].w
  /\ log[1].pulled >= 1
  /\ log[4].ret = RSome(log[1].w)

\* C9: with at least n elements in the logical sequence, peek_slice(0..n)
\* returns its first n elements in order and consumes nothing: the logical
\* sequence is unchanged and the pops that follow return those elements
\* from the first on.
C9_PeekSlicePrefix ==
  (/\ Len(log) >= 1
   /\ log[1].op = "peek_slice"
   /\ log[1].lo = Included(0) /\ log[1].hi.k = "Exc"
   /\ log[1].hi.v <= Available(start.iter, start.buf))
  => /\ log[1].ret = RSlice(SubSeq(Logical(start.iter, start.buf), 1, log[1].hi.v))
     /\ Len(log) = 1 => Logical(iter, buf) = Logical(start.iter, start.buf)
     /\ \A j \in 2..Len(log) :
          j - 1 <= log[1].hi.v => log[j].ret = RSome(Logical(start.iter, start.buf)[j - 1])

\* C9 witness: peek_slice(0..2) over one buffered element and one pulled for
\* it, then two pops returning the view's two elements.
C9_Witness ==
  /\ Len(log) = 3
  /\ log[1].op = "peek_slice"
  /\ log[1].lo = Included(0) /\ log[1].hi = Excluded(2)
  /\ Len(start.buf) = 1 /\ log[1].pulled = 1
  /\ log[1].ret.kind = "Slice" /\ Len(log[1].ret.view) = 2
  /\ log[1].ret.view[1] # log[1].ret.view[2]
  /\ log[2].ret = RSome(log[1].ret.view[1])
  /\ log[3].ret = RSome(log[1].ret.view[2])

\* C10 (as claimed): with fewer than n+1 elements available peek(n) and
\* peek_mut(n) return None and lose no element; pop on an empty buffer over
\* an exhausted source returns None and changes nothing.
C10_ExhaustionIsAbsence ==
  /\ (/\ Len(log) = 1
      /\ Last.op \in {"peek", "peek_mut"}
      /\ Available(start.iter, start.buf) < Last.n + 1)
     => /\ Last.ret = RNone
        /\ Logical(iter, buf) = Logical(start.iter, start.buf)
  /\ (/\ Len(log) = 1
      /\ Last.op = "pop"
      /\ Available(start.iter, start.buf) = 0)
     => /\ Last.ret = RNone
        /\ buf = start.buf /\ iter = start.iter

\* C11 (as claimed): a peek_slice or peek_slice_mut whose lower bound is
\* greater than the number of elements available returns None, and the
\* logical sequence is what it was: nothing consumed, nothing made up.
C11_LowerBoundAbsent ==
  (/\ Len(log) = 1
   /\ Last.op \in {"peek_slice", "peek_slice_mut"}
   /\ SliceStart(Last.lo) > Available(start.iter, start.buf))
  => /\ Last.ret = RNone
     /\ Logical(iter, buf) = Logical(start.iter, start.buf)

\* C12: a peek(n) straight after a peek(n) returns what the first returned,
\* takes nothing from the source, and leaves iter and buf as the first call
\* left them.
C12_PeekIdempotent ==
  (/\ Len(log) = 2
   /\ log[1].op = "peek" /\ log[2].op = "peek" /\ log[1].n = log[2].n)
  => /\ log[2].ret = log[1].ret
     /\ log[2].pulled = 0
     /\ iter = peek(start.iter, start.buf, log[1].n).iter
     /\ buf = peek(start.iter, start.buf, log[1].n).buf
     /\ Len(buf) = Len(start.buf) + log[1].pulled

\* C12 witness: peek(1) on a fresh buffer pulled two items and returned the
\* second; the peek(1) after it returned the same and pulled nothing.
C12_Witness ==
  /\ Len(log) = 2
  /\ log[1].op = "peek" /\ log[2].op = "peek"
  /\ log[1].n = 1 /\ log[2].n = 1
  /\ start.buf = <<>> /\ log[1].pulled = 2
  /\ log[1].ret.kind = "Some" /\ log[2].ret = log[1].ret
  /\ log[2].pulled = 0

\* C13: pop on a non-empty buffer returns its front element, removes it and
\* leaves the source alone, without a call of its next; pop on an empty
\* buffer calls the source's next once and returns the one item it takes,
\* or None when the source has none, and the buffer is still empty.
\* Iterator::next is pop.
C13_PopSourceAccess ==
  /\ (Len(log) = 1 /\ Last.op = "pop")
     => /\ start.buf # <<>>
           => /\ Last.ret = RSome(Head(start.buf))
              /\ buf = Tail(start.buf)
              /\ iter = start.iter /\ Last.pulled = 0 /\ Last.asked = 0
        /\ start.buf = <<>>
           => /\ buf = <<>> /\ Last.asked = 1
              /\ start.iter # <<>>
                 => /\ Last.ret = RSome(Head(start.iter))
                    /\ iter = Tail(start.iter) /\ Last.pulled = 1
              /\ start.iter = <<>>
                 => Last.ret = RNone /\ iter = <<>> /\ Last.pulled = 0
  /\ next(iter, buf) = pop(iter, buf)

\* C13 witness: the two cases: a pop that returned the front of a buffer of
\* two over a source that still has items, and a pop on an empty buffer that
\* took one item from the source.
C13_Witness ==
  /\ Len(log) = 1 /\ Last.op = "pop"
  /\ \/ /\ Len(start.buf) = 2 /\ start.iter # <<>>
        /\ Last.ret = RSome(start.buf[1]) /\ Last.pulled = 0
        /\ start.buf[1] # start.iter[1]
     \/ /\ start.buf = <<>> /\ Len(start.iter) >= 2
        /\ Last.ret = RSome(start.iter[1]) /\ Last.pulled = 1

\* ------------------------------------------- infinite sources (C14)
\* The same calls over finite sources and over sources that give items for
\* ever: a finite run of items, then one item repeated without end.
InfiniteSources ==
  {pre \o <<-x>> : pre \in UNION {[1..k -> Items] : k \in 0..(MaxSrc - 1)}, x \in Items}

InfInit == InitOver(Sources \cup InfiniteSources)

InfSpec == InfInit /\ [][Next]_vars

\* The most a call that returns may pull: nothing for push and len, one item
\* for pop, up to index n for peek and peek_mut, up to the end bound for a
\* range, and the rest of a finite source for a range without end bound.
PullBound(e, it, b) ==
  IF e.op = "pop" THEN 1
  ELSE IF e.op \in {"peek", "peek_mut"} THEN saturating_sub(e.n + 1, Len(b))
  ELSE IF e.op \in {"peek_slice", "peek_slice_mut"}
  THEN IF e.hi.k = "Unb" THEN Len(ItemsOf(it))
       ELSE IF e.hi.k = "Inc" THEN saturating_sub(e.hi.v + 1, Len(b))
       ELSE saturating_sub(e.hi.v, Len(b))
  ELSE 0

\* C14 (as claimed): every call returns, whatever the source.
C14_AlwaysReturns ==
  \A i \in DOMAIN log : log[i].ret.kind # "Never"

\* C14 (amended): the calls that never return are exactly peek_slice and
\* peek_slice_mut with an unbounded end over a source that never gives
\* None; every other call, over a finite or an infinite source, returns
\* after at most PullBound pulls and, where the source ends before that,
\* one more call of its next.
C14_BoundedPulls ==
  Len(log) = 1
  => /\ Last.ret.kind = "Never"
          <=> /\ Infinite(start.iter)
              /\ Last.op \in {"peek_slice", "peek_slice_mut"}
              /\ Last.hi.k = "Unb"
     /\ Last.ret.kind # "Never"
          => /\ Last.pulled <= PullBound(Last, start.iter, start.buf)
             /\ Last.pulled >= 0
             /\ Last.asked <= Last.pulled + 1

\* C14 witness: over an infinite source, peek_slice(0..3) on a buffer of one
\* element returned a view of three after two pulls.
C14_Witness ==
  /\ Len(log) = 1 /\ Last.op = "peek_slice"
  /\ Infinite(start.iter) /\ Len(start.buf) = 1
  /\ Last.lo = Included(0) /\ Last.hi = Excluded(3)
  /\ Last.ret.kind = "Slice" /\ Len(Last.ret.view) = 3
  /\ Last.pulled = 2

\* C15: new(source) gives an empty buffer over the whole source, nothing
\* pulled; the first call that needs an element, the peek(0) of the prefix
\* run, is the one that pulls the source's first item.
C15_LazyNew ==
  /\ log = <<>> => buf = <<>> /\ iter = start.iter
  /\ Len(log) >= 1
     => /\ start.buf = <<>>
        /\ log[1].pulled = 1
        /\ log[1].ret = RSome(start.iter[1])

\* C15 witness: on a fresh BufIter over a source of MaxSrc items the first
\* peek(0) pulled one item, the source's first.
C15_Witness ==
  /\ Len(log) = 1 /\ Last.op = "peek" /\ Last.n = 0
  /\ Len(start.iter) = MaxSrc /\ start.buf = <<>>
  /\ Last.pulled = 1 /\ Last.ret = RSome(start.iter[1])
  /\ buf = <<start.iter[1]>> /\ Len(iter) = MaxSrc - 1

\* C16 (as claimed): peek(n) and peek_mut(n) with n = usize::MAX, and a
\* range with the inclusive end usize::MAX, over fewer elements: no panic,
\* None is returned, and the pulls are those of n + 1 computed without
\* wrapping: every element the source still had is in the buffer.
C16_NoOverflow ==
  (/\ Len(log) = 1
   /\ \/ Last.op \in {"peek", "peek_mut"} /\ Last.n = UsizeMax
      \/ /\ Last.op \in {"peek_slice", "peek_slice_mut"}
         /\ Last.hi = Included(UsizeMax))
  => /\ Last.ret = RNone
     /\ ItemsOf(iter) = <<>>
     /\ buf = Logical(start.iter, start.buf)

MinOf(a, b) == IF a <= b THEN a ELSE b

\* C17 (as claimed): with b elements buffered and r items left in the
\* source, the prepare of a range call pulls min(max(0, e - b), r) items for
\* an exclusive end e, min(max(0, i + 1 - b), r) for an inclusive end i, and
\* all r for no end bound; the buffer afterwards is the old buffer followed
\* by the items pulled, in source order; the range's start plays no part.
C17_MinimalRangePull ==
  (Len(log) = 1 /\ Last.op = "peek_slice")
  => LET b == Len(start.buf)
         r == Len(ItemsOf(start.iter))
         k == IF Last.hi.k \in {"Exc", "Exh"} THEN MinOf(Max(0, Last.hi.v - b), r)
              ELSE IF Last.hi.k = "Inc" THEN MinOf(Max(0, Last.hi.v + 1 - b), r)
              ELSE r
     IN /\ Last.pulled = k
        /\ buf = start.buf \o SubSeq(ItemsOf(start.iter), 1, k)
        /\ ItemsOf(iter) = SubSeq(ItemsOf(start.iter), k + 1, r)

\* --------------------------------------------- unfused sources (C18)
\* The same calls over sources that may give items again after a None: any
\* sequence of items and Nones.
UnfusedSources == UNION {[1..k -> Items \cup {Stop}] : k \in 0..MaxSrc}

UnfusedInit == InitOver(UnfusedSources)

UnfusedSpec == UnfusedInit /\ [][Next]_vars

\* How often the calls of lg called the source's next.
RECURSIVE Asked(_)
Asked(lg) == IF lg = <<>> THEN 0 ELSE Head(lg).asked + Asked(Tail(lg))

\* The first k answers of the source `it` to next, Nones included.
RECURSIVE Outputs(_, _)
Outputs(it, k) ==
  IF k = 0 THEN <<>>
  ELSE <<SrcNext(it).item>> \o Outputs(SrcNext(it).iter, k - 1)

\* What the calls of the log had from the source: its answer to every call
\* of next they made, the Nones of a source that is used up included.
Consumed == Outputs(start.iter, Asked(log))

StopIsLast(c) == \A p \in DOMAIN c : c[p] = Stop => p = Len(c)

\* C18 (as claimed): after a None from the source no call asks the source
\* again: a None is the last thing the calls of the log ever had from it.
C18_NeverAskedAgain == StopIsLast(Consumed)

\* C18 (amended): within one call a None from the source is the last thing
\* the call has from it; a later pop on an empty buffer asks the source
\* again, whatever it gave before, and returns what it gives.
C18_StopEndsTheCall ==
  Len(log) = 1
  => /\ StopIsLast(Consumed)
     /\ Len(Consumed) = Last.asked
     /\ (Last.op = "pop" /\ start.buf = <<>>)
        => /\ Consumed = <<SrcNext(start.iter).item>>
           /\ Consumed # <<Stop>> => Last.ret = RSome(Consumed[1])
           /\ Consumed = <<Stop>> => Last.ret = RNone

\* C18 witness: peek(2) over the source 1, None, 2 had the item and the
\* None, returned None and left the 2 in the source.
C18_Witness ==
  /\ Len(log) = 1 /\ Last.op = "peek" /\ Last.n = 2
  /\ start.buf = <<>> /\ Len(start.iter) = 3
  /\ start.iter[1] # Stop /\ start.iter[2] = Stop /\ start.iter[3] # Stop
  /\ Consumed = <<start.iter[1], Stop>>
  /\ Last.ret = RNone /\ buf = <<start.iter[1]>> /\ iter = <<start.iter[3]>>

\* peek's result as peek_slice gives it: the element as a view of one.
AsView(r) == IF r.kind = "Some" THEN RSlice(<<r.val>>) ELSE r

\* C19: from every state and for every index n, peek_slice(n..n+1) and
\* peek_slice(n..=n) return what peek(n) returns from the same state (a
\* view of the one element for the element, None for None), leave the same
\* buffer and the same source, and have pulled as many items.
C19_SliceAgreesWithPeek ==
  (/\ Len(log) = 1 /\ Last.op = "peek_slice"
   /\ Last.lo.k = "Inc"
   /\ \/ Last.hi = Included(Last.lo.v)
      \/ Last.hi = Excluded(Last.lo.v + 1))
  => LET p == peek(start.iter, start.buf, Last.lo.v) IN
     /\ Last.ret = AsView(p.ret)
     /\ buf = p.buf /\ iter = p.iter
     /\ Last.pulled = Len(ItemsOf(start.iter)) - Len(ItemsOf(p.iter))

\* C19 witness: peek_slice(1..=1) on a fresh buffer pulled two items and
\* returned a view of the second, as peek(1) does; and peek_slice(2..3) over
\* two elements returned None with both in the buffer.
C19_Witness ==
  /\ Len(log) = 1 /\ Last.op = "peek_slice"
  /\ start.buf = <<>>
  /\ \/ /\ Last.lo = Included(1) /\ Last.hi = Included(1)
        /\ Len(start.iter) = 3
        /\ Last.pulled = 2 /\ Last.ret = RSlice(<<start.iter[2]>>)
        /\ peek(start.iter, start.buf, 1).ret = RSome(start.iter[2])
     \/ /\ Last.lo = Included(2) /\ Last.hi = Excluded(3)
        /\ Len(start.iter) = 2
        /\ Last.pulled = 2 /\ Last.ret = RNone
        /\ peek(start.iter, start.buf, 2).ret = RNone

\* ------------------------------------------------- iteration (C20)
\* A caller that goes on calling next on a fresh BufIter over a finite
\* source, with peeks and range peeks at any time in between and at most
\* MaxPush pushes.  log holds the pushes and the pops of the whole run; of
\* a row of pops that return None it holds the first.  The indices and end
\* bounds of the run are small, so the two builds behave alike and one is
\* taken.
Pushes(lg) == Cardinality({i \in DOMAIN lg : lg[i].op = "push"})

ReturnedNone == log # <<>> /\ Last.op = "pop" /\ Last.ret = RNone

IterPush ==
  /\ Pushes(log) < MaxPush
  /\ \E item \in Items :
       Did("push", item, NoRange, 0, 0, push(iter, buf, item))

IterPop ==
  LET r == next(iter, buf) IN
  /\ iter' = r.iter /\ buf' = r.buf
  /\ log' = IF ReturnedNone /\ r.ret = RNone THEN log
            ELSE Append(log, Event("pop", 0, NoRange.lo, NoRange.hi, 0, 0, r))
  /\ UNCHANGED <<overflow_checks, start>>

IterPeek ==
  \E n \in 0..MaxIdx :
    /\ iter' = peek(iter, buf, n).iter /\ buf' = peek(iter, buf, n).buf
    /\ UNCHANGED <<overflow_checks, log, start>>

IterPeekSlice ==
  \E hi \in {h \in UpperBounds : h.k = "Unb" \/ h.v <= MaxHi} :
    /\ iter' = peek_slice(iter, buf, Included(0), hi).iter
    /\ buf' = peek_slice(iter, buf, Included(0), hi).buf
    /\ UNCHANGED <<overflow_checks, log, start>>

IterNext ==
  \/ IterPush
  \/ IterPop
  \/ IterPeek
  \/ IterPeekSlice

\* The caller goes on calling next: a pop that would change anything is
\* not put off for ever.
IterInit == Init /\ overflow_checks

IterSpec == IterInit /\ [][IterNext]_vars /\ WF_vars(IterPop)

\* How often x is among the source's items, was pushed, was returned by pop.
InSource(x) == Cardinality({i \in DOMAIN start.iter : start.iter[i] = x})
Pushed(x) == Cardinality({i \in DOMAIN log : log[i].op = "push" /\ log[i].n = x})
Popped(x) == Cardinality({i \in DOMAIN log : log[i].op = "pop" /\ log[i].ret = RSome(x)})

\* When pop has just returned None, every item of the source and every
\* item pushed has been returned by a pop exactly once, nothing is left, and
\* the next pop returns None and changes nothing; in the log only a push
\* follows a pop that returned None.
Drained ==
  /\ ReturnedNone
     => /\ \A x \in Items : Popped(x) = InSource(x) + Pushed(x)
        /\ buf = <<>> /\ ItemsOf(iter) = <<>>
        /\ next(iter, buf) = [iter |-> iter, buf |-> buf, ret |-> RNone, asked |-> 1]
  /\ \A j \in 1..(Len(log) - 1) :
       (log[j].op = "pop" /\ log[j].ret = RNone) => log[j + 1].op = "push"

\* C20: over a finite source and with finitely many pushes, a caller that
\* goes on calling pop, peeks in between or not, is at some time returned
\* None; by then every item of the source and every item pushed has been
\* returned by pop exactly once, and pop returns None from then on until
\* the next push.
C20_IterationDrains == []Drained /\ <>ReturnedNone

\* C20 witness: pop returned None after a run over a source of MaxSrc items
\* with MaxPush pushes in which some pop returned, without a pull, an item
\* that a peek had put into the buffer.
C20_Witness ==
  /\ ReturnedNone
  /\ Len(start.iter) = MaxSrc /\ Pushes(log) = MaxPush
  /\ Len(log) = MaxSrc + 2 * MaxPush + 1
  /\ \E j \in DOMAIN log :
       /\ log[j].op = "pop" /\ log[j].pulled = 0 /\ log[j].ret.kind = "Some"
       /\ \A i \in 1..j : log[i].op = "pop"

====
